---------------------------- MODULE Spec2Model ----------------------------
(***************************************************************************)
(* Model of the question/answer data-access layer                          *)
(* (src/src/persistence/mod.rs, src/src/models/mod.rs).                    *)
(*                                                                         *)
(* The DAO keeps no state of its own beyond the pool handle: the state is  *)
(* the relational store (two tables, the open transactions and the rows    *)
(* they have written but not yet committed) and, for every caller, the     *)
(* position of its async call between two awaits.  The store is PostgreSQL *)
(* at its default isolation level, READ COMMITTED: the code never sets     *)
(* another one and never locks a row with its first read.                  *)
(*                                                                         *)
(* A UUID is scaled down from 32 hexadecimal digits to two binary digits;  *)
(* its textual forms keep their shape: hyphenated "d-d" (what to_string    *)
(* prints) and simple "dd" (which parse_str accepts as well).              *)
(***************************************************************************)
EXTENDS Integers, Sequences, FiniteSets, TLC

\* Number of concurrent callers of the DAO.
NProcs == 2
\* Number of DAO calls made in one behaviour.
MaxCalls == 3

Procs == 1..NProcs

----------------------------------------------------------------------------
(* models/mod.rs: identifiers *)

Digits == {"0", "1"}
Chars == Digits \cup {"-", "g"}

\* sqlx::types::Uuid, two digits wide.
Uuids == {<<a, b>> : a \in Digits, b \in Digits}
NoUuid == <<>>

\* Uuid's Display: the hyphenated form.
to_string(u) == <<u[1], "-", u[2]>>
\* The simple form, without the hyphen.
to_simple(u) == <<u[1], u[2]>>

\* Strings that are no textual form of a UUID: empty, too short, a character
\* that is no digit, a hyphen out of place, too long.
Malformed == { <<>>, <<"0">>, <<"1", "g">>, <<"-", "0", "1">>, <<"0", "1", "0">> }

\* The identifier strings callers pass in EntityId and NewAnswer.question_id:
\* every UUID in the hyphenated form, one in the simple form, and the
\* malformed ones.
IdStrings ==
    {to_string(u) : u \in Uuids} \cup {to_simple(<<"0", "1">>)} \cup Malformed

\* A parse that takes every two- or three-character string of digits.
parse_str_lenient(s) ==
    IF Len(s) = 3 /\ s[1] \in Digits /\ s[3] \in Digits
    THEN [ok |-> TRUE, val |-> <<s[1], s[3]>>]
    ELSE IF Len(s) >= 2 /\ s[1] \in Digits /\ s[2] \in Digits
    THEN [ok |-> TRUE, val |-> <<s[1], s[2]>>]
    ELSE [ok |-> FALSE, val |-> NoUuid]

\* Uuid::parse_str: the hyphenated or the simple form, nothing else.
parse_str(s) ==
    IF Len(s) = 3 /\ s[1] \in Digits /\ s[2] = "-" /\ s[3] \in Digits
    THEN [ok |-> TRUE, val |-> <<s[1], s[3]>>]
    ELSE IF Len(s) = 2 /\ s[1] \in Digits /\ s[2] \in Digits
    THEN [ok |-> TRUE, val |-> <<s[1], s[2]>>]
    ELSE [ok |-> FALSE, val |-> NoUuid]

\* A conversion that parses leniently.
try_into_lenient(s) == parse_str_lenient(s)

\* impl TryInto<Uuid> for EntityId.
try_into(s) == parse_str(s)

\* The texts callers put in titles, questions and answers.
Texts == {"a", "b"}

\* NewQuestion { title, question }
NewQuestions == {[title |-> "a", question |-> "b"], [title |-> "b", question |-> "a"]}
\* NewAnswer { question_id, answer }
NewAnswers == [question_id : IdStrings, answer : Texts]


----------------------------------------------------------------------------
(* models/mod.rs: DbError, and what a call returns *)

DbErrors == {"Creation", "NotFound", "InvalidUuid", "Access", "FromRow",
             "Deletion", "Update", "Commit"}

\* Result<T, DbError>, or the panic that unwinds the call: kind is "Ok", a
\* DbError variant or "Panic"; id is the Uuid of Ok(Uuid); rows are the
\* entities of Ok(Question), Ok(Vec<Question>), Ok(Answer), Ok(Vec<Answer>).
Res(kind, id, rows) == [kind |-> kind, id |-> id, rows |-> rows]
NoRes == Res("none", NoUuid, {})
Ok(id, rows) == Res("Ok", id, rows)
Err(kind) == Res(kind, NoUuid, {})

\* likes: i32
I32Max == 2147483647
I32Min == -I32Max - 1

\* The read value bound as it is: no increment.
plus_one_none(l) == {[panic |-> FALSE, val |-> l]}

\* `likes + 1` on an i32: the sum; at i32::MAX a build with overflow checks
\* panics and a build without them wraps.
plus_one(l) ==
    IF l = I32Max
    THEN {[panic |-> TRUE, val |-> l], [panic |-> FALSE, val |-> I32Min]}
    ELSE {[panic |-> FALSE, val |-> l + 1]}

----------------------------------------------------------------------------
(* The state *)

VARIABLES
    poolOpen,    \* the PgPool has not been closed
    questions,   \* table questions, committed rows: id -> row
    answers,     \* table answers, committed rows: id -> row
    generated,   \* the ids the store has generated so far
    clock,       \* the store's now()
    tx,          \* per caller: the sqlx Transaction it holds, with its uncommitted write
    pc,          \* per caller: the await its call is suspended at
    op,          \* per caller: the DAO method it is in
    arg,         \* per caller: the identifier string it passed
    uid,         \* per caller: the parsed Uuid (question_id / answer_id)
    likes,       \* per caller: the local `likes` of increment_question_likes
    result,      \* per caller: what the call returned
    ncalls,      \* calls made so far
    \* history, for stating the properties
    nstmts,      \* per caller: statements and transaction-begins issued by the call
    storeErr,    \* per caller: a step of the call failed for a reason other than a missing row
    mapErr,      \* per caller: a row the call fetched could not be mapped to its entity
    matched,     \* per caller: whether the call's first read found its row ("na" before it)
    created,     \* id -> the NewQuestion of the create_question that returned it
    deletedIds,  \* the ids delete_question has returned
    okIncs       \* id -> number of increment_question_likes calls that returned Ok

store == <<poolOpen, questions, answers, generated, clock>>
local == <<pc, op, arg, uid, likes, result, ncalls>>
hist == <<nstmts, storeErr, mapErr, matched, created, deletedIds, okIncs>>
vars == <<poolOpen, questions, answers, generated, clock, tx, pc, op, arg, uid,
          likes, result, ncalls, nstmts, storeErr, mapErr, matched, created,
          deletedIds, okIncs>>

\* No write yet in a transaction.
NoWrite == [kind |-> "none", id |-> NoUuid, likes |-> 0]
NoTx == [open |-> FALSE, w |-> NoWrite]

\* f with x mapped to v (x added to its domain when new).
Put(f, x, v) == [y \in DOMAIN f \cup {x} |-> IF y = x THEN v ELSE f[y]]
\* f without x.
Drop(f, x) == [y \in DOMAIN f \ {x} |-> f[y]]
Empty == [y \in {} |-> 0]

Init ==
    /\ poolOpen = TRUE
    /\ questions = Empty
    /\ answers = Empty
    /\ generated = {}
    /\ clock = 0
    /\ tx = [p \in Procs |-> NoTx]
    /\ pc = [p \in Procs |-> "idle"]
    /\ op = [p \in Procs |-> "none"]
    /\ arg = [p \in Procs |-> <<>>]
    /\ uid = [p \in Procs |-> NoUuid]
    /\ likes = [p \in Procs |-> 0]
    /\ result = [p \in Procs |-> NoRes]
    /\ ncalls = 0
    /\ nstmts = [p \in Procs |-> 0]
    /\ storeErr = [p \in Procs |-> FALSE]
    /\ mapErr = [p \in Procs |-> FALSE]
    /\ matched = [p \in Procs |-> "na"]
    /\ created = Empty
    /\ deletedIds = {}
    /\ okIncs = [u \in Uuids |-> 0]


----------------------------------------------------------------------------
(* The store: statements, and transactions at READ COMMITTED *)

\* Column default of questions.likes and answers.likes.
DefaultLikes == 0

\* The order in which the store generates ids (the column default of id): a
\* generated id is one the store has not generated before.
IdOrder == << <<"0", "0">>, <<"0", "1">>, <<"1", "0">>, <<"1", "1">> >>
FreshIds == IF Cardinality(generated) < Len(IdOrder)
            THEN {IdOrder[Cardinality(generated) + 1]} ELSE {}

\* The two texts bound to the wrong columns.
question_row_swapped(id, title, question, now) ==
    [id |-> id, title |-> question, question |-> title, likes |-> 0,
     created_at |-> now]

\* INSERT INTO questions (title, question) VALUES ($1, $2): the row the store
\* makes, with the id it generated and its defaults.
question_row(id, title, question, now) ==
    [id |-> id, title |-> title, question |-> question, likes |-> DefaultLikes,
     created_at |-> now]

\* INSERT INTO answers (question_id, answer) VALUES ($1, $2).
answer_row(id, question_id, answer, now) ==
    [id |-> id, question_id |-> question_id, answer |-> answer,
     likes |-> DefaultLikes, created_at |-> now]

\* SELECT ... WHERE id = $1 on a table: the rows fetched.
select_by_id(table, id) == {table[i] : i \in {j \in DOMAIN table : j = id}}

\* A SELECT that leaves out the rows nobody has liked.
select_all_liked(table) == {table[i] : i \in {j \in DOMAIN table : table[j].likes > 0}}

\* SELECT * FROM <table>.
select_all(table) == {table[i] : i \in DOMAIN table}

\* A SELECT on answers without the WHERE clause.
select_any_question(table, qid) == {table[i] : i \in DOMAIN table}

\* SELECT * FROM answers WHERE question_id = $1.
select_by_question(table, qid) ==
    {table[i] : i \in {j \in DOMAIN table : table[j].question_id = qid}}

\* answers.question_id references questions.id: the answers of a question.
Children(qid) == {i \in DOMAIN answers : answers[i].question_id = qid}

\* A store without row locks: no write ever waits.
LockedByOther_never(p, id) == FALSE

\* Another transaction holds the row lock of question id: it has updated or
\* deleted the row and has not ended.  A write to the row waits for it.
LockedByOther(p, id) ==
    \E q \in Procs \ {p} : tx[q].open /\ tx[q].w.kind # "none" /\ tx[q].w.id = id

\* Another transaction has deleted question id and has not ended: an insert
\* that references the row waits for it.
DeletePending(id) ==
    \E q \in Procs : tx[q].open /\ tx[q].w.kind = "delete" /\ tx[q].w.id = id

\* A commit whose update reaches every row of the table.
Committed_all(table, w) ==
    IF w.kind = "update" /\ w.id \in DOMAIN table
    THEN [i \in DOMAIN table |-> [table[i] EXCEPT !.likes = w.likes]]
    ELSE IF w.kind = "delete" THEN Drop(table, w.id)
    ELSE table

\* A commit: the transaction's write reaches the table.
Committed(table, w) ==
    IF w.kind = "update" /\ w.id \in DOMAIN table
    THEN [table EXCEPT ![w.id].likes = w.likes]
    ELSE IF w.kind = "delete" THEN Drop(table, w.id)
    ELSE table

----------------------------------------------------------------------------
(* Bookkeeping shared by the actions *)

\* A caller enters method o with identifier string a.  The callers are
\* alike: of those that are idle, the lowest makes the next call.
Calling(p, o, a) ==
    /\ pc[p] = "idle"
    /\ \A q \in Procs : q < p => pc[q] # "idle"
    /\ ncalls < MaxCalls
    /\ op' = [op EXCEPT ![p] = o]
    /\ arg' = [arg EXCEPT ![p] = a]
    /\ ncalls' = ncalls + 1

\* A return that leaves the Transaction as it is.
Returning_keep(p, r) ==
    /\ pc' = [pc EXCEPT ![p] = "done"]
    /\ result' = [result EXCEPT ![p] = r]
    /\ UNCHANGED tx

\* The call returns r; a Transaction it still holds is dropped, which rolls
\* it back.
Returning(p, r) ==
    /\ pc' = [pc EXCEPT ![p] = "done"]
    /\ result' = [result EXCEPT ![p] = r]
    /\ tx' = [tx EXCEPT ![p] = NoTx]

\* The call goes on to its next await.
Goto(p, at) ==
    /\ pc' = [pc EXCEPT ![p] = at]
    /\ UNCHANGED result

Hist(p, n, e, m) ==
    /\ nstmts' = [nstmts EXCEPT ![p] = n]
    /\ storeErr' = [storeErr EXCEPT ![p] = e]
    /\ matched' = [matched EXCEPT ![p] = m]
    /\ mapErr' = [mapErr EXCEPT ![p] = FALSE]

\* The history of a call whose statement fetched a row that from_row could
\* not map: the step failed, though the store executed the statement.
HistFromRow(p, n, m) ==
    /\ nstmts' = [nstmts EXCEPT ![p] = n]
    /\ storeErr' = [storeErr EXCEPT ![p] = TRUE]
    /\ matched' = [matched EXCEPT ![p] = m]
    /\ mapErr' = [mapErr EXCEPT ![p] = TRUE]

YesNo(b) == IF b THEN "yes" ELSE "no"


----------------------------------------------------------------------------
(* persistence/mod.rs: QuestionDaoImpl *)

\* Other DbError variants a map_err could have been written with.
err_access == "Access"
err_deletion == "Deletion"

\* The DbError each map_err of QuestionDaoImpl wraps a store error in.
create_question_err == "Creation"
get_question_err == "NotFound"
get_questions_err == "Access"
dq_begin_err == "Access"
dq_select_err == "NotFound"
dq_delete_err == "Deletion"
dq_commit_err == "Access"
iq_begin_err == "Access"
iq_select_err == "NotFound"
iq_update_err == "Update"
iq_commit_err == "Commit"

\* The DbError a read of QuestionDaoImpl returns when a fetched row cannot be
\* mapped: query_as hands the from_row error to the method's one map_err;
\* get_questions maps each row itself.
get_question_row_err == "NotFound"
get_questions_row_err == "FromRow"

\* The columns of "SELECT likes FROM ...", and the column each increment
\* reads from the fetched row with row.get: it panics on a column the row
\* does not have.
likes_columns == {"likes"}
iq_get_column == "likes"
ia_get_column == "id"

\* create_question: one INSERT ... returning id on the pool.
create_question(p) ==
    /\ Calling(p, "create_question", <<>>)
    /\ UNCHANGED <<poolOpen, answers, uid, likes, deletedIds, okIncs>>
    /\ \E nq \in NewQuestions :
        \/ \E id \in FreshIds :
              /\ poolOpen
              /\ questions' = Put(questions, id, question_row(id, nq.title, nq.question, clock))
              /\ generated' = generated \cup {id}
              /\ clock' = clock + 1
              /\ created' = Put(created, id, nq)
              /\ Returning(p, Ok(id, {}))
              /\ Hist(p, 1, FALSE, "na")
        \/ /\ UNCHANGED <<questions, generated, clock, created>>
           /\ Returning(p, Err(create_question_err))
           /\ Hist(p, 1, TRUE, "na")

\* get_question: parse the id, then one SELECT on the pool, fetch_one with
\* the row mapped by Question::from_row.
get_question(p) ==
    \E a \in IdStrings :
        LET id == try_into(a)
            rows == select_by_id(questions, id.val)
        IN  /\ Calling(p, "get_question", a)
            /\ UNCHANGED <<store, likes, created, deletedIds, okIncs>>
            /\ IF ~id.ok
               THEN /\ UNCHANGED uid
                    /\ Returning(p, Err("InvalidUuid"))
                    /\ Hist(p, 0, FALSE, "na")
               ELSE /\ uid' = [uid EXCEPT ![p] = id.val]
                    /\ \/ /\ poolOpen
                          /\ rows # {}
                          /\ Returning(p, Ok(NoUuid, rows))
                          /\ Hist(p, 1, FALSE, "yes")
                       \/ /\ poolOpen
                          /\ rows = {}
                          /\ Returning(p, Err(get_question_err))
                          /\ Hist(p, 1, FALSE, "no")
                       \/ /\ poolOpen
                          /\ rows # {}
                          /\ Returning(p, Err(get_question_row_err))
                          /\ HistFromRow(p, 1, "yes")
                       \/ /\ Returning(p, Err(get_question_err))
                          /\ Hist(p, 1, TRUE, YesNo(rows # {}))

\* get_questions: one SELECT on the pool, fetch_all, every row mapped.
get_questions(p) ==
    /\ Calling(p, "get_questions", <<>>)
    /\ UNCHANGED <<store, uid, likes, created, deletedIds, okIncs>>
    /\ \/ /\ poolOpen
          /\ Returning(p, Ok(NoUuid, select_all(questions)))
          /\ Hist(p, 1, FALSE, "na")
       \/ /\ poolOpen
          /\ select_all(questions) # {}
          /\ Returning(p, Err(get_questions_row_err))
          /\ HistFromRow(p, 1, "na")
       \/ /\ Returning(p, Err(get_questions_err))
          /\ Hist(p, 1, TRUE, "na")

\* The head of delete_question and increment_question_likes: parse the id,
\* then pool.begin(); the call goes on to its SELECT at `next`.
ParseAndBegin(p, o, a, begin_err, next) ==
    LET id == try_into(a)
    IN  /\ Calling(p, o, a)
        /\ UNCHANGED <<store, likes, created, deletedIds, okIncs>>
        /\ IF ~id.ok
           THEN /\ UNCHANGED uid
                /\ Returning(p, Err("InvalidUuid"))
                /\ Hist(p, 0, FALSE, "na")
           ELSE /\ uid' = [uid EXCEPT ![p] = id.val]
                /\ \/ /\ poolOpen
                      /\ tx' = [tx EXCEPT ![p] = [open |-> TRUE, w |-> NoWrite]]
                      /\ Goto(p, next)
                      /\ Hist(p, 1, FALSE, "na")
                   \/ /\ Returning(p, Err(begin_err))
                      /\ Hist(p, 1, TRUE, "na")

delete_question(p) ==
    \E a \in IdStrings : ParseAndBegin(p, "delete_question", a, dq_begin_err, "dq_select")

\* delete_question: SELECT * FROM questions WHERE id = $1, fetch_one, in tx.
dq_select(p) ==
    LET rows == select_by_id(questions, uid[p])
    IN  /\ pc[p] = "dq_select"
        /\ UNCHANGED <<store, op, arg, uid, likes, ncalls, created, deletedIds, okIncs>>
        /\ \/ /\ rows # {}
              /\ Goto(p, "dq_delete")
              /\ UNCHANGED tx
              /\ Hist(p, nstmts[p] + 1, FALSE, "yes")
           \/ /\ rows = {}
              /\ Returning(p, Err(dq_select_err))
              /\ Hist(p, nstmts[p] + 1, FALSE, "no")
           \/ /\ Returning(p, Err(dq_select_err))
              /\ Hist(p, nstmts[p] + 1, TRUE, YesNo(rows # {}))

\* delete_question: DELETE FROM questions WHERE id = $1 RETURNING id,
\* fetch_one, in tx.
dq_delete(p) ==
    /\ pc[p] = "dq_delete"
    /\ UNCHANGED <<store, op, arg, uid, likes, ncalls, created, deletedIds, okIncs>>
    /\ \/ /\ ~LockedByOther(p, uid[p])
          /\ uid[p] \in DOMAIN questions
          /\ Children(uid[p]) = {}
          /\ tx' = [tx EXCEPT ![p].w = [kind |-> "delete", id |-> uid[p], likes |-> 0]]
          /\ Goto(p, "dq_commit")
          /\ Hist(p, nstmts[p] + 1, storeErr[p], matched[p])
       \/ /\ ~LockedByOther(p, uid[p])
          /\ uid[p] \notin DOMAIN questions
          /\ Returning(p, Err(dq_delete_err))
          /\ Hist(p, nstmts[p] + 1, storeErr[p], matched[p])
       \/ /\ Returning(p, Err(dq_delete_err))
          /\ Hist(p, nstmts[p] + 1, TRUE, matched[p])

\* delete_question: tx.commit(), then Ok(id) with the id the DELETE returned.
dq_commit(p) ==
    /\ pc[p] = "dq_commit"
    /\ UNCHANGED <<poolOpen, answers, generated, clock, op, arg, uid, likes, ncalls,
                   created, okIncs>>
    /\ \/ /\ questions' = Committed(questions, tx[p].w)
          /\ deletedIds' = deletedIds \cup {tx[p].w.id}
          /\ Returning(p, Ok(tx[p].w.id, {}))
          /\ Hist(p, nstmts[p] + 1, storeErr[p], matched[p])
       \/ /\ UNCHANGED <<questions, deletedIds>>
          /\ Returning(p, Err(dq_commit_err))
          /\ Hist(p, nstmts[p] + 1, TRUE, matched[p])

increment_question_likes(p) ==
    \E a \in IdStrings :
        ParseAndBegin(p, "increment_question_likes", a, iq_begin_err, "iq_select")

\* increment_question_likes: SELECT likes FROM questions WHERE id = $1,
\* fetch_one, in tx.
iq_select(p) ==
    LET rows == select_by_id(questions, uid[p])
    IN  /\ pc[p] = "iq_select"
        /\ UNCHANGED <<store, op, arg, uid, ncalls, created, deletedIds, okIncs>>
        /\ \/ /\ rows # {}
              /\ IF iq_get_column \in likes_columns
                 THEN /\ likes' = [likes EXCEPT ![p] = (CHOOSE r \in rows : TRUE).likes]
                      /\ Goto(p, "iq_update")
                      /\ UNCHANGED tx
                 ELSE /\ UNCHANGED likes
                      /\ Returning(p, Res("Panic", NoUuid, {}))
              /\ Hist(p, nstmts[p] + 1, FALSE, "yes")
           \/ /\ rows = {}
              /\ UNCHANGED likes
              /\ Returning(p, Err(iq_select_err))
              /\ Hist(p, nstmts[p] + 1, FALSE, "no")
           \/ /\ UNCHANGED likes
              /\ Returning(p, Err(iq_select_err))
              /\ Hist(p, nstmts[p] + 1, TRUE, YesNo(rows # {}))

\* increment_question_likes: UPDATE questions SET likes = $1 WHERE id = $2
\* with $1 = likes + 1, execute, in tx.  The statement waits for the row
\* lock; when the row is gone it updates no row and still succeeds.
iq_update(p) ==
    /\ pc[p] = "iq_update"
    /\ UNCHANGED <<store, op, arg, uid, likes, ncalls, created, deletedIds, okIncs>>
    /\ \/ \E o \in plus_one(likes[p]) :
              /\ o.panic \/ ~LockedByOther(p, uid[p])
              /\ IF o.panic
                 THEN /\ Returning(p, Res("Panic", NoUuid, {}))
                      /\ Hist(p, nstmts[p], storeErr[p], matched[p])
                 ELSE /\ tx' = [tx EXCEPT ![p].w =
                                  IF uid[p] \in DOMAIN questions
                                  THEN [kind |-> "update", id |-> uid[p], likes |-> o.val]
                                  ELSE NoWrite]
                      /\ Goto(p, "iq_commit")
                      /\ Hist(p, nstmts[p] + 1, storeErr[p], matched[p])
       \/ /\ Returning(p, Err(iq_update_err))
          /\ Hist(p, nstmts[p] + 1, TRUE, matched[p])

\* increment_question_likes: tx.commit().
iq_commit(p) ==
    /\ pc[p] = "iq_commit"
    /\ UNCHANGED <<poolOpen, answers, generated, clock, op, arg, uid, likes, ncalls,
                   created, deletedIds>>
    /\ \/ /\ questions' = Committed(questions, tx[p].w)
          /\ okIncs' = [okIncs EXCEPT ![uid[p]] = @ + 1]
          /\ Returning(p, Ok(NoUuid, {}))
          /\ Hist(p, nstmts[p] + 1, storeErr[p], matched[p])
       \/ /\ UNCHANGED <<questions, okIncs>>
          /\ Returning(p, Err(iq_commit_err))
          /\ Hist(p, nstmts[p] + 1, TRUE, matched[p])

----------------------------------------------------------------------------
(* persistence/mod.rs: AnswerDaoImpl *)

\* The DbError each map_err of AnswerDaoImpl wraps a store error in.
create_answer_err == "Creation"
get_answer_err == "Access"
get_answers_err == "Access"
delete_answer_err == "Access"
get_all_answers_err == "Access"
ia_begin_err == "Access"
ia_select_err == "NotFound"

\* The DbError a read of AnswerDaoImpl returns when a fetched row cannot be
\* mapped.
get_answer_row_err == "Access"
get_answers_row_err == "FromRow"
get_all_answers_row_err == "Access"

\* delete_answer sends "DELETE * FROM answers WHERE id = $1": the store
\* takes DELETE FROM, and rejects this text with a syntax error.
delete_answer_sql_accepted == FALSE

\* create_answer: parse new_answer.question_id, then one INSERT ... returning
\* id on the pool.  The insert needs the referenced question; it waits while
\* a transaction that deleted the question has not ended.
create_answer(p) ==
    \E na \in NewAnswers :
        LET qid == parse_str(na.question_id)
        IN  /\ Calling(p, "create_answer", na.question_id)
            /\ UNCHANGED <<poolOpen, questions, likes, created, deletedIds, okIncs>>
            /\ IF ~qid.ok
               THEN /\ UNCHANGED <<answers, generated, clock, uid>>
                    /\ Returning(p, Err("InvalidUuid"))
                    /\ Hist(p, 0, FALSE, "na")
               ELSE /\ uid' = [uid EXCEPT ![p] = qid.val]
                    /\ \/ \E id \in FreshIds :
                            /\ poolOpen
                            /\ qid.val \in DOMAIN questions
                            /\ ~DeletePending(qid.val)
                            /\ answers' = Put(answers, id, answer_row(id, qid.val, na.answer, clock))
                            /\ generated' = generated \cup {id}
                            /\ clock' = clock + 1
                            /\ Returning(p, Ok(id, {}))
                            /\ Hist(p, 1, FALSE, "yes")
                       \/ /\ poolOpen
                          /\ qid.val \notin DOMAIN questions
                          /\ UNCHANGED <<answers, generated, clock>>
                          /\ Returning(p, Err(create_answer_err))
                          /\ Hist(p, 1, FALSE, "no")
                       \/ /\ UNCHANGED <<answers, generated, clock>>
                          /\ Returning(p, Err(create_answer_err))
                          /\ Hist(p, 1, TRUE, YesNo(qid.val \in DOMAIN questions))

\* get_answer: parse the id, then one SELECT on the pool, fetch_one with the
\* row mapped by Answer::from_row.
get_answer(p) ==
    \E a \in IdStrings :
        LET id == try_into(a)
            rows == select_by_id(answers, id.val)
        IN  /\ Calling(p, "get_answer", a)
            /\ UNCHANGED <<store, likes, created, deletedIds, okIncs>>
            /\ IF ~id.ok
               THEN /\ UNCHANGED uid
                    /\ Returning(p, Err("InvalidUuid"))
                    /\ Hist(p, 0, FALSE, "na")
               ELSE /\ uid' = [uid EXCEPT ![p] = id.val]
                    /\ \/ /\ poolOpen
                          /\ rows # {}
                          /\ Returning(p, Ok(NoUuid, rows))
                          /\ Hist(p, 1, FALSE, "yes")
                       \/ /\ poolOpen
                          /\ rows = {}
                          /\ Returning(p, Err(get_answer_err))
                          /\ Hist(p, 1, FALSE, "no")
                       \/ /\ poolOpen
                          /\ rows # {}
                          /\ Returning(p, Err(get_answer_row_err))
                          /\ HistFromRow(p, 1, "yes")
                       \/ /\ Returning(p, Err(get_answer_err))
                          /\ Hist(p, 1, TRUE, YesNo(rows # {}))

\* get_answers: parse the question id, then one SELECT on the pool,
\* fetch_all, every row mapped.
get_answers(p) ==
    \E a \in IdStrings :
        LET id == try_into(a)
        IN  /\ Calling(p, "get_answers", a)
            /\ UNCHANGED <<store, likes, created, deletedIds, okIncs>>
            /\ IF ~id.ok
               THEN /\ UNCHANGED uid
                    /\ Returning(p, Err("InvalidUuid"))
                    /\ Hist(p, 0, FALSE, "na")
               ELSE /\ uid' = [uid EXCEPT ![p] = id.val]
                    /\ \/ /\ poolOpen
                          /\ Returning(p, Ok(NoUuid, select_by_question(answers, id.val)))
                          /\ Hist(p, 1, FALSE, "na")
                       \/ /\ poolOpen
                          /\ select_by_question(answers, id.val) # {}
                          /\ Returning(p, Err(get_answers_row_err))
                          /\ HistFromRow(p, 1, "na")
                       \/ /\ Returning(p, Err(get_answers_err))
                          /\ Hist(p, 1, TRUE, "na")

\* delete_answer: parse the id, then one statement on the pool, execute;
\* Ok(answer_id) when the store executed it.
delete_answer(p) ==
    \E a \in IdStrings :
        LET id == try_into(a)
        IN  /\ Calling(p, "delete_answer", a)
            /\ UNCHANGED <<poolOpen, questions, generated, clock, likes, created,
                           deletedIds, okIncs>>
            /\ IF ~id.ok
               THEN /\ UNCHANGED <<answers, uid>>
                    /\ Returning(p, Err("InvalidUuid"))
                    /\ Hist(p, 0, FALSE, "na")
               ELSE /\ uid' = [uid EXCEPT ![p] = id.val]
                    /\ \/ /\ poolOpen
                          /\ delete_answer_sql_accepted
                          /\ answers' = Drop(answers, id.val)
                          /\ Returning(p, Ok(id.val, {}))
                          /\ Hist(p, 1, FALSE, YesNo(id.val \in DOMAIN answers))
                       \/ /\ poolOpen
                          /\ ~delete_answer_sql_accepted
                          /\ UNCHANGED answers
                          /\ Returning(p, Err(delete_answer_err))
                          /\ Hist(p, 1, FALSE, YesNo(id.val \in DOMAIN answers))
                       \/ /\ UNCHANGED answers
                          /\ Returning(p, Err(delete_answer_err))
                          /\ Hist(p, 1, TRUE, YesNo(id.val \in DOMAIN answers))

\* get_all_answers: one SELECT on the pool, fetch_all with every row mapped
\* by Answer::from_row.
get_all_answers(p) ==
    /\ Calling(p, "get_all_answers", <<>>)
    /\ UNCHANGED <<store, uid, likes, created, deletedIds, okIncs>>
    /\ \/ /\ poolOpen
          /\ Returning(p, Ok(NoUuid, select_all(answers)))
          /\ Hist(p, 1, FALSE, "na")
       \/ /\ poolOpen
          /\ select_all(answers) # {}
          /\ Returning(p, Err(get_all_answers_row_err))
          /\ HistFromRow(p, 1, "na")
       \/ /\ Returning(p, Err(get_all_answers_err))
          /\ Hist(p, 1, TRUE, "na")

increment_answer_likes(p) ==
    \E a \in IdStrings :
        ParseAndBegin(p, "increment_answer_likes", a, ia_begin_err, "ia_select")

\* increment_answer_likes: SELECT likes FROM answers WHERE id = $1, fetch_one
\* with the row mapped by row.get::<i32, &str>("id"), in tx.  The mapping of
\* a fetched row panics, so the UPDATE and the commit after it are never
\* reached.
ia_select(p) ==
    LET rows == select_by_id(answers, uid[p])
    IN  /\ pc[p] = "ia_select"
        /\ UNCHANGED <<store, op, arg, uid, likes, ncalls, created, deletedIds, okIncs>>
        /\ \/ /\ rows # {}
              /\ IF ia_get_column \in likes_columns
                 THEN /\ Goto(p, "ia_update")
                      /\ UNCHANGED tx
                 ELSE Returning(p, Res("Panic", NoUuid, {}))
              /\ Hist(p, nstmts[p] + 1, FALSE, "yes")
           \/ /\ rows = {}
              /\ Returning(p, Err(ia_select_err))
              /\ Hist(p, nstmts[p] + 1, FALSE, "no")
           \/ /\ Returning(p, Err(ia_select_err))
              /\ Hist(p, nstmts[p] + 1, TRUE, YesNo(rows # {}))

----------------------------------------------------------------------------
(* The callers and the pool *)

\* The caller has taken the result; it may call again.
Return(p) ==
    /\ pc[p] = "done"
    /\ pc' = [pc EXCEPT ![p] = "idle"]
    /\ op' = [op EXCEPT ![p] = "none"]
    /\ arg' = [arg EXCEPT ![p] = <<>>]
    /\ uid' = [uid EXCEPT ![p] = NoUuid]
    /\ likes' = [likes EXCEPT ![p] = 0]
    /\ result' = [result EXCEPT ![p] = NoRes]
    /\ Hist(p, 0, FALSE, "na")
    /\ UNCHANGED <<store, tx, ncalls, created, deletedIds, okIncs>>

\* pool.close(): no connection can be acquired any more; a transaction that
\* holds its connection goes on.
ClosePool ==
    /\ poolOpen
    /\ poolOpen' = FALSE
    /\ UNCHANGED <<questions, answers, generated, clock, tx, local, hist>>

\* The question repository's operations.
QuestionOps(p) ==
    \/ create_question(p)
    \/ get_question(p)
    \/ get_questions(p)
    \/ delete_question(p)
    \/ dq_select(p)
    \/ dq_delete(p)
    \/ dq_commit(p)
    \/ increment_question_likes(p)
    \/ iq_select(p)
    \/ iq_update(p)
    \/ iq_commit(p)

\* The answer repository's operations.
AnswerOps(p) ==
    \/ create_answer(p)
    \/ get_answer(p)
    \/ get_answers(p)
    \/ delete_answer(p)
    \/ get_all_answers(p)
    \/ increment_answer_likes(p)
    \/ ia_select(p)

Next ==
    \/ \E p \in Procs : QuestionOps(p) \/ AnswerOps(p) \/ Return(p)
    \/ ClosePool

\* Callers that call at any time: every interleaving of their awaits.
Spec == Init /\ [][Next]_vars

\* No other caller is in a call or holds an unreturned result.
Alone(p) == \A q \in Procs \ {p} : pc[q] = "idle"

\* Callers that call one after the other: a call is made, and goes on, only
\* while every other caller is idle.
SeqNext ==
    \/ \E p \in Procs : Alone(p) /\ create_question(p)
    \/ \E p \in Procs : Alone(p) /\ get_question(p)
    \/ \E p \in Procs : Alone(p) /\ get_questions(p)
    \/ \E p \in Procs : Alone(p) /\ delete_question(p)
    \/ \E p \in Procs : Alone(p) /\ dq_select(p)
    \/ \E p \in Procs : Alone(p) /\ dq_delete(p)
    \/ \E p \in Procs : Alone(p) /\ dq_commit(p)
    \/ \E p \in Procs : Alone(p) /\ increment_question_likes(p)
    \/ \E p \in Procs : Alone(p) /\ iq_select(p)
    \/ \E p \in Procs : Alone(p) /\ iq_update(p)
    \/ \E p \in Procs : Alone(p) /\ iq_commit(p)
    \/ \E p \in Procs : Alone(p) /\ create_answer(p)
    \/ \E p \in Procs : Alone(p) /\ get_answer(p)
    \/ \E p \in Procs : Alone(p) /\ get_answers(p)
    \/ \E p \in Procs : Alone(p) /\ delete_answer(p)
    \/ \E p \in Procs : Alone(p) /\ get_all_answers(p)
    \/ \E p \in Procs : Alone(p) /\ increment_answer_likes(p)
    \/ \E p \in Procs : Alone(p) /\ ia_select(p)
    \/ \E p \in Procs : Alone(p) /\ Return(p)
    \/ ClosePool

SeqSpec == Init /\ [][SeqNext]_vars

\* The operations that write a question.
WriteOps(p) ==
    \/ create_question(p)
    \/ delete_question(p)
    \/ dq_select(p)
    \/ dq_delete(p)
    \/ dq_commit(p)
    \/ increment_question_likes(p)
    \/ iq_select(p)
    \/ iq_update(p)
    \/ iq_commit(p)

\* Concurrent callers that write questions.
WriteSpec == Init /\ [][\E p \in Procs : WriteOps(p) \/ Return(p)]_vars

\* The likes of the question that is in the table when the callers start:
\* none yet, or as many as an i32 holds.
SeedLikes == {0, I32Max}
\* The question that is in the table when the callers start: the first one
\* create_question made.
SeedId == IdOrder[1]
SeedQuestion == [title |-> "a", question |-> "b"]

\* The state after create_question(SeedQuestion) returned SeedId and
\* increment_question_likes raised its likes to one of SeedLikes.
LikedInit ==
    /\ poolOpen = TRUE
    /\ \E l \in SeedLikes :
          questions = Put(Empty, SeedId,
                          [question_row(SeedId, SeedQuestion.title,
                                        SeedQuestion.question, 0)
                              EXCEPT !.likes = l])
    /\ answers = Empty
    /\ generated = {SeedId}
    /\ clock = 1
    /\ tx = [p \in Procs |-> NoTx]
    /\ pc = [p \in Procs |-> "idle"]
    /\ op = [p \in Procs |-> "none"]
    /\ arg = [p \in Procs |-> <<>>]
    /\ uid = [p \in Procs |-> NoUuid]
    /\ likes = [p \in Procs |-> 0]
    /\ result = [p \in Procs |-> NoRes]
    /\ ncalls = 0
    /\ nstmts = [p \in Procs |-> 0]
    /\ storeErr = [p \in Procs |-> FALSE]
    /\ mapErr = [p \in Procs |-> FALSE]
    /\ matched = [p \in Procs |-> "na"]
    /\ created = Put(Empty, SeedId, SeedQuestion)
    /\ deletedIds = {}
    /\ okIncs = [u \in Uuids |-> 0]

\* Concurrent callers that write questions, on a table that holds a question.
LikedSpec == LikedInit /\ [][\E p \in Procs : WriteOps(p) \/ Return(p)]_vars


----------------------------------------------------------------------------
(* Properties *)

Done(p, o) == pc[p] = "done" /\ op[p] = o

\* A textual form of a UUID, said without the parser.
WellFormed(s) == \E u \in Uuids : s = to_string(u) \/ s = to_simple(u)
\* The UUID a well-formed string is a form of.
UuidOf(s) == CHOOSE u \in Uuids : s = to_string(u) \/ s = to_simple(u)

\* The methods whose failed commit the call reports: the transactional ones
\* that reach their commit.
CommitOps == {"delete_question", "increment_question_likes"}

\* The methods that take an EntityId.
EntityIdOps == {"get_question", "delete_question", "increment_question_likes",
                "get_answer", "get_answers", "delete_answer",
                "increment_answer_likes"}

\* A caller is inside increment_question_likes on question id.
Incrementing(id) ==
    \E p \in Procs : pc[p] \in {"iq_select", "iq_update", "iq_commit"} /\ uid[p] = id

\* C1: no lost updates.  Once every increment_question_likes call on an
\* existing question has returned, its likes are higher than at creation by
\* the number of calls that committed (returned Ok), whatever the interleaving.
C1_NoLostUpdate ==
    \A id \in DOMAIN questions :
        ~Incrementing(id) => questions[id].likes = DefaultLikes + okIncs[id]

\* C2: sequential increments count exactly.  With one call at a time, the
\* likes of a question are higher than at creation by the number of
\* increment_question_likes calls that returned Ok, and a call on a question
\* that exists returns Ok unless the store fails one of its steps.
C2_SequentialIncrements ==
    /\ \A id \in DOMAIN questions : questions[id].likes = DefaultLikes + okIncs[id]
    /\ \A p \in Procs :
          (Done(p, "increment_question_likes") /\ matched[p] = "yes" /\ ~storeErr[p])
              => result[p].kind = "Ok"

\* Two successive increments have returned Ok and the likes are 2.
C2_Witness ==
    \E p \in Procs :
        /\ Done(p, "increment_question_likes")
        /\ result[p].kind = "Ok"
        /\ uid[p] \in DOMAIN questions
        /\ okIncs[uid[p]] = 2
        /\ questions[uid[p]].likes = 2

\* C3: increment_question_likes on a well-formed id whose row the transaction's
\* read does not find returns NotFound, having issued only the begin and the
\* read (no UPDATE, no commit) and holding no transaction.
C3_IncrementNotFound ==
    \A p \in Procs :
        (Done(p, "increment_question_likes") /\ matched[p] = "no")
            => /\ result[p].kind = "NotFound"
               /\ nstmts[p] = 2
               /\ ~tx[p].open

\* An increment on an id with no row, after a question was created, has
\* returned NotFound.
C3_Witness ==
    \E p \in Procs :
        /\ Done(p, "increment_question_likes")
        /\ matched[p] = "no"
        /\ result[p].kind = "NotFound"
        /\ questions # Empty

\* C4: a call of a method that takes an EntityId, with a string that is no
\* well-formed UUID, returns InvalidUuid and has issued no statement and begun
\* no transaction.
C4_MalformedIdRejected ==
    \A p \in Procs :
        (pc[p] = "done" /\ op[p] \in EntityIdOps /\ ~WellFormed(arg[p]))
            => /\ result[p].kind = "InvalidUuid"
               /\ nstmts[p] = 0
               /\ ~tx[p].open

\* increment_answer_likes has rejected a three-character string that has a
\* digit where the hyphen belongs.
C4_Witness ==
    \E p \in Procs :
        /\ Done(p, "increment_answer_likes")
        /\ arg[p] = <<"0", "1", "0">>
        /\ result[p].kind = "InvalidUuid"

\* C5: with one call at a time, delete_question on a well-formed id with no
\* row returns NotFound; on an id whose row exists it returns Ok with the id
\* that was passed, unless the store fails a step, and the row is gone; and
\* get_question on an id that delete_question has returned returns NotFound.
C5_DeleteThenGet ==
    \A p \in Procs :
        /\ (Done(p, "delete_question") /\ matched[p] = "no")
              => result[p].kind = "NotFound"
        /\ (Done(p, "delete_question") /\ matched[p] = "yes" /\ ~storeErr[p])
              => /\ result[p] = Ok(UuidOf(arg[p]), {})
                 /\ UuidOf(arg[p]) \in deletedIds
                 /\ UuidOf(arg[p]) \notin DOMAIN questions
        /\ (Done(p, "get_question") /\ WellFormed(arg[p]) /\ UuidOf(arg[p]) \in deletedIds)
              => result[p].kind = "NotFound"

\* A get_question on the id of a deleted question has returned NotFound, over
\* an open pool with no store failure.
C5_Witness ==
    \E p \in Procs :
        /\ Done(p, "get_question")
        /\ WellFormed(arg[p])
        /\ UuidOf(arg[p]) \in deletedIds
        /\ ~storeErr[p]
        /\ result[p].kind = "NotFound"

\* C6: create/get round trip.  With one call at a time, get_question on an id
\* that create_question returned (and that was not deleted) returns, unless the
\* store fails, exactly one Question: it has that id and the title and the
\* question text that were passed to create_question, and likes 0 when no
\* increment has come in between.
C6_CreateGetRoundTrip ==
    \A p \in Procs :
        (/\ Done(p, "get_question")
         /\ WellFormed(arg[p])
         /\ UuidOf(arg[p]) \in DOMAIN created
         /\ UuidOf(arg[p]) \notin deletedIds
         /\ ~storeErr[p])
            => /\ result[p].kind = "Ok"
               /\ \E r \in result[p].rows :
                    /\ result[p].rows = {r}
                    /\ r.id = UuidOf(arg[p])
                    /\ r.title = created[r.id].title
                    /\ r.question = created[r.id].question
                    /\ okIncs[r.id] = 0 => r.likes = 0

\* A get_question right after the create_question of its id has returned the
\* question.
C6_Witness ==
    \E p \in Procs :
        /\ Done(p, "get_question")
        /\ result[p].kind = "Ok"
        /\ \E r \in result[p].rows : r.id \in DOMAIN created /\ r.likes = 0
        /\ ncalls = 2

\* C7: with one call at a time, get_questions returns Ok unless the store
\* fails, and the ids of the questions it returns are exactly the ids
\* create_question has returned and delete_question has not.
C7_ListIsLiveSet ==
    \A p \in Procs :
        Done(p, "get_questions") =>
            /\ ~storeErr[p] => result[p].kind = "Ok"
            /\ result[p].kind = "Ok" =>
                  {r.id : r \in result[p].rows} = DOMAIN created \ deletedIds

\* get_questions has returned an empty sequence on a table emptied by a
\* delete.
C7_Witness ==
    \E p \in Procs :
        /\ Done(p, "get_questions")
        /\ result[p] = Ok(NoUuid, {})
        /\ deletedIds # {}

\* C8: a create_question made while the pool is closed returns Creation, a
\* get_questions made then returns Access, and neither changes a table.
C8_PoolUnavailable ==
    [][\A p \in Procs :
          (~poolOpen /\ pc[p] = "idle" /\ pc'[p] # "idle") =>
              /\ op'[p] = "create_question" =>
                    /\ pc'[p] = "done"
                    /\ result'[p].kind = "Creation"
                    /\ questions' = questions /\ answers' = answers
              /\ op'[p] = "get_questions" =>
                    /\ pc'[p] = "done"
                    /\ result'[p].kind = "Access"
                    /\ questions' = questions /\ answers' = answers]_vars

\* With a question in the table and the pool closed, get_questions has
\* returned Access.
C8_Witness ==
    \E p \in Procs :
        /\ ~poolOpen
        /\ questions # Empty
        /\ Done(p, "get_questions")
        /\ result[p].kind = "Access"

\* C9: create_answer with a question_id that is no well-formed UUID returns
\* InvalidUuid and has issued no statement; with a well-formed question_id
\* that no question has, it returns Creation, and no answer refers to a
\* question that is not in the table.
C9_CreateAnswerBadQuestion ==
    \A p \in Procs :
        /\ (Done(p, "create_answer") /\ ~WellFormed(arg[p]))
              => result[p].kind = "InvalidUuid" /\ nstmts[p] = 0
        /\ (Done(p, "create_answer") /\ WellFormed(arg[p]) /\ matched[p] = "no")
              => /\ result[p].kind = "Creation"
                 /\ \A a \in DOMAIN answers : answers[a].question_id # UuidOf(arg[p])

\* create_answer for a question that was deleted has returned Creation over
\* an open pool.
C9_Witness ==
    \E p \in Procs :
        /\ Done(p, "create_answer")
        /\ WellFormed(arg[p])
        /\ UuidOf(arg[p]) \in deletedIds
        /\ matched[p] = "no"
        /\ ~storeErr[p]
        /\ result[p].kind = "Creation"

\* C10: a transactional call whose begin and two statements succeeded and
\* whose commit failed (its fourth step, failed by the store) returns Commit.
C10_CommitFailureIsCommit ==
    \A p \in Procs :
        (pc[p] = "done" /\ op[p] \in CommitOps /\ nstmts[p] = 4 /\ storeErr[p])
            => result[p].kind = "Commit"

\* C11: delete_answer follows the pattern of delete_question.  With one call
\* at a time and no failure of the store, delete_answer on a well-formed id
\* that no answer has returns NotFound, and on the id of an answer it returns
\* Ok with that id and the answer is no longer in the table.
C11_DeleteAnswerPattern ==
    \A p \in Procs :
        /\ (Done(p, "delete_answer") /\ matched[p] = "no" /\ ~storeErr[p])
              => result[p].kind = "NotFound"
        /\ (Done(p, "delete_answer") /\ matched[p] = "yes" /\ ~storeErr[p])
              => /\ result[p] = Ok(UuidOf(arg[p]), {})
                 /\ UuidOf(arg[p]) \notin DOMAIN answers

\* C12: increment_answer_likes never panics, and on the id of an answer it
\* returns Ok unless the store fails one of its steps.
C12_IncrementAnswerLikes ==
    \A p \in Procs :
        Done(p, "increment_answer_likes") =>
            /\ result[p].kind # "Panic"
            /\ (matched[p] = "yes" /\ ~storeErr[p]) => result[p].kind = "Ok"

\* C13: get_question and get_answer on a well-formed id that no row has
\* return NotFound.
C13_GetMissingIsNotFound ==
    \A p \in Procs :
        ((Done(p, "get_question") \/ Done(p, "get_answer")) /\ matched[p] = "no")
            => result[p].kind = "NotFound"


\* C14: under every interleaving of concurrent create_question,
\* delete_question and increment_question_likes calls, the likes of a question
\* that stays in the table do not go down in a step, and the row filed under
\* an id has that id.  (Stated for likes below i32::MAX: what `likes + 1`
\* does at i32::MAX is C19.)
C14_LikesNeverDecrease ==
    [][\A id \in DOMAIN questions \cap DOMAIN questions' :
          /\ questions'[id].id = questions[id].id
          /\ questions[id].likes < I32Max
                => questions'[id].likes >= questions[id].likes]_vars

\* The methods that begin a transaction.
TxOps == {"delete_question", "increment_question_likes", "increment_answer_likes"}
\* The awaits at which a call commits.
AtCommit == {"dq_commit", "iq_commit"}

\* C15: rollback on abandon.  A transactional call that ends before its
\* commit (at its begin, its read or its write) holds no open transaction
\* when it has returned; no step of such a call other than its commit changes
\* a table; and a call comes to its commit only after its read found the row
\* and the store failed none of its three earlier steps.
C15_RollbackOnAbandon ==
    [][\A p \in Procs :
          /\ (pc[p] \notin AtCommit /\ pc'[p] = "done" /\ op'[p] \in TxOps
                /\ result'[p].kind # "Ok")
                => ~tx'[p].open
          /\ (op'[p] \in TxOps /\ pc[p] \notin AtCommit)
                => questions' = questions /\ answers' = answers
          /\ (pc'[p] \in AtCommit /\ pc[p] \notin AtCommit)
                => /\ nstmts'[p] = 3
                   /\ ~storeErr'[p]
                   /\ matched'[p] = "yes"]_vars

\* delete_question has returned Deletion from its DELETE, which the store
\* rejected because the question has an answer: the call holds no
\* transaction and the question is in the table.
C15_Witness ==
    \E p \in Procs :
        /\ Done(p, "delete_question")
        /\ result[p].kind = "Deletion"
        /\ nstmts[p] = 3
        /\ ~tx[p].open
        /\ uid[p] \in DOMAIN questions
        /\ Children(uid[p]) # {}

\* The methods that map fetched rows to entities with from_row.
ReadOps == {"get_question", "get_questions", "get_answer", "get_answers",
            "get_all_answers"}

\* C16: a read (get_question, get_questions, get_answer, get_answers,
\* get_all_answers) that fetched a row it could not map to its entity returns
\* FromRow: not Ok with the row left out, no other DbError, no panic.
C16_UnmappableRowIsFromRow ==
    \A p \in Procs :
        (pc[p] = "done" /\ op[p] \in ReadOps /\ mapErr[p])
            => result[p].kind = "FromRow"

\* C17: in delete_question, after the existence check found the row, the
\* DELETE either succeeds and the call goes on to its commit, or fails (the
\* store fails it, or it returns no row) and the call returns Deletion at
\* once: without a commit, holding no transaction, with the table as it was.
\* The row of a call that returned Deletion is in the table unless a
\* delete_question of another caller has removed it.
C17_DeleteStatementFailure ==
    /\ [][\A p \in Procs :
            (pc[p] = "dq_delete" /\ pc'[p] # "dq_delete") =>
                \/ /\ pc'[p] = "dq_commit"
                   /\ tx'[p].w.kind = "delete"
                \/ /\ pc'[p] = "done"
                   /\ result'[p].kind = "Deletion"
                   /\ nstmts'[p] = 3
                   /\ ~tx'[p].open
                   /\ questions' = questions]_vars
    /\ [](\A p \in Procs :
            (Done(p, "delete_question") /\ result[p].kind = "Deletion")
                => uid[p] \in DOMAIN questions \/ uid[p] \in deletedIds)

\* A delete_question whose existence check found the row has returned
\* Deletion because its DELETE returned no row: the delete_question of
\* another caller removed the row in between.
C17_Witness ==
    \E p \in Procs :
        /\ Done(p, "delete_question")
        /\ matched[p] = "yes"
        /\ ~storeErr[p]
        /\ result[p].kind = "Deletion"
        /\ uid[p] \in deletedIds

\* C18: with one call at a time, get_answers on a well-formed question id
\* returns Ok unless the store fails, also when no question has that id, and
\* the answers it returns are exactly the answers in the table whose
\* question_id is that id: each of them, and no answer of another question.
C18_AnswersOfQuestion ==
    \A p \in Procs :
        (Done(p, "get_answers") /\ WellFormed(arg[p])) =>
            /\ ~storeErr[p] => result[p].kind = "Ok"
            /\ result[p].kind = "Ok" =>
                  /\ \A r \in result[p].rows : r.question_id = UuidOf(arg[p])
                  /\ \A a \in DOMAIN answers :
                        answers[a].question_id = UuidOf(arg[p])
                            => answers[a] \in result[p].rows
                  /\ \A r \in result[p].rows :
                        r.id \in DOMAIN answers /\ answers[r.id] = r

\* get_answers on an id that no question has returned Ok with an empty
\* sequence while the table holds an answer to another question.
C18_Witness ==
    \E p \in Procs :
        /\ Done(p, "get_answers")
        /\ WellFormed(arg[p])
        /\ UuidOf(arg[p]) \notin DOMAIN questions
        /\ result[p] = Ok(NoUuid, {})
        /\ answers # Empty

\* C19: the likes of every question in the table are >= 0, and no
\* increment_question_likes call panics, also on a question whose likes are
\* i32::MAX.
C19_LikesNeverNegative ==
    /\ \A id \in DOMAIN questions : questions[id].likes >= 0
    /\ \A p \in Procs :
          Done(p, "increment_question_likes") => result[p].kind # "Panic"

\* C20: an increment_question_likes call returns Ok only if its UPDATE
\* changed a row.  Under every interleaving with delete_question calls, when
\* the call's commit returns Ok its transaction holds an update of the row,
\* and the row is in the table with one like more than the call read.
C20_OkOnlyIfRowChanged ==
    [][\A p \in Procs :
          (pc[p] = "iq_commit" /\ pc'[p] = "done" /\ result'[p].kind = "Ok")
              => /\ tx[p].w.kind = "update"
                 /\ uid[p] \in DOMAIN questions'
                 /\ questions'[uid[p]].likes = likes[p] + 1]_vars

\* The delete_question calls on question id that have returned after their
\* existence check found the row.
DeletersOf(id) ==
    {p \in Procs : Done(p, "delete_question") /\ uid[p] = id /\ matched[p] = "yes"}

\* C21: concurrent delete_question calls on the same existing id.  The call
\* whose commit returns Ok removes a row that was in the table and that no
\* earlier call has removed, and it returns that id; of the calls that found
\* the row, no two return Ok; and when two or more of them have returned and
\* the store failed none, one call has returned Ok and each other one an
\* error.
C21_OneDeleteWins ==
    /\ [][\A p \in Procs :
            (pc[p] = "dq_commit" /\ pc'[p] = "done" /\ result'[p].kind = "Ok")
                => /\ result'[p].id = uid[p]
                   /\ uid[p] \in DOMAIN questions
                   /\ uid[p] \notin DOMAIN questions'
                   /\ uid[p] \notin deletedIds]_vars
    /\ [](\A id \in Uuids :
            /\ Cardinality({p \in DeletersOf(id) : result[p].kind = "Ok"}) <= 1
            /\ (/\ Cardinality(DeletersOf(id)) >= 2
                /\ \A p \in DeletersOf(id) : ~storeErr[p])
                  => /\ id \in deletedIds
                     /\ id \notin DOMAIN questions
                     /\ \E p \in DeletersOf(id) :
                          \A q \in DeletersOf(id) \ {p} : result[q].kind \in DbErrors)

\* Two delete_question calls found the same question; one has returned Ok
\* with its id and the other Deletion, and the store failed neither.
C21_Witness ==
    \E p, q \in Procs :
        /\ p # q
        /\ {p, q} \subseteq DeletersOf(uid[p])
        /\ ~storeErr[p] /\ ~storeErr[q]
        /\ result[p] = Ok(uid[p], {})
        /\ result[q].kind = "Deletion"

\* C22: frame conditions.  A step of a caller in
\* increment_question_likes on id X leaves the table's ids as they are, every
\* other question row as it is, and every field of row X but likes as it is;
\* a step of a caller in delete_question on X adds no row and leaves every row but X as
\* it is; neither changes an answer; and get_question and get_questions
\* change nothing in the store.
C22_Frame ==
    [][\A p \in Procs :
          /\ (pc'[p] # pc[p] /\ op'[p] = "increment_question_likes") =>
                /\ answers' = answers
                /\ DOMAIN questions' = DOMAIN questions
                /\ \A id \in DOMAIN questions :
                      IF id = uid'[p]
                      THEN [questions'[id] EXCEPT !.likes = questions[id].likes]
                               = questions[id]
                      ELSE questions'[id] = questions[id]
          /\ (pc'[p] # pc[p] /\ op'[p] = "delete_question") =>
                /\ answers' = answers
                /\ DOMAIN questions' \subseteq DOMAIN questions
                /\ \A id \in DOMAIN questions \ {uid'[p]} :
                      id \in DOMAIN questions' /\ questions'[id] = questions[id]
          /\ (pc'[p] # pc[p] /\ op'[p] \in {"get_question", "get_questions"}) =>
                /\ questions' = questions
                /\ answers' = answers
                /\ generated' = generated
                /\ clock' = clock]_vars

\* With two questions in the table, increment_question_likes on one has
\* returned Ok: that one has a like and the other has none.
C22_Witness ==
    \E p \in Procs :
        /\ Done(p, "increment_question_likes")
        /\ result[p].kind = "Ok"
        /\ uid[p] \in DOMAIN questions
        /\ questions[uid[p]].likes = 1
        /\ \E id \in DOMAIN questions \ {uid[p]} : questions[id].likes = 0

============================================================================
